---------------------------- MODULE Spec2Model ----------------------------
(***************************************************************************)
(* Model of the Red-card-uh workout tracker (a single React component,     *)
(* `App`).  The state of the model is the component's React state (useState *)
(* cells), the interval armed by the rest-timer effect and the wall clock.  *)
(* One action per event handler; the rest-timer effect (useEffect with     *)
(* dependencies isActive, isResting, restTimeLeft) is its own step, which   *)
(* React commits and runs after a change of its dependencies and before the *)
(* next event is handled: while it is pending no other action is enabled.   *)
(*                                                                         *)
(* Numbers: MET values are kept in tenths (8.5 is 85) so that they stay     *)
(* integers; times are milliseconds as in Date.now().                      *)
(***************************************************************************)
EXTENDS Integers, Sequences, FiniteSets, TLC

VARIABLES
    session,        \* useState<SessionState>
    config,         \* useState<WorkoutConfig>
    completedDays,  \* useState<number[]>, the completion ledger
    view,           \* useState<'onboarding' | 'dashboard' | ...>
    lastStats,      \* useState<{calories, duration} | null>
    userData,       \* useState<UserData> (weight, onboarded)
    timer,          \* the number of intervals of the rest-timer effect that are armed
    effectPending,  \* TRUE while the rest-timer effect has to run (deps changed)
    now,            \* the wall clock, in clock steps
    lastOp,         \* history: the handler or step taken last
    storage,        \* localStorage: redcarduh_user, redcarduh_config, redcarduh_completed
    storageWorks,   \* FALSE while localStorage.setItem throws (quota exceeded)
    crashed         \* TRUE once an exception has escaped a render or an effect

vars == <<session, config, completedDays, view, lastStats, userData,
          timer, effectPending, now, lastOp, storage, storageWorks, crashed>>

----------------------------------------------------------------------------
(* Bounds of the model *)

\* days that can be started are 1..MaxDay
MaxDay == 1
\* the clock advances at most MaxClockSteps times
MaxClockSteps == 1
\* a stored ledger of consecutive days holds days 1..n, n up to MaxStoredDays
MaxStoredDays == 35
\* on a first visit with days picked in any order the days are 1..MaxPickedDay
MaxPickedDay == 4
\* the Training Matrix cells that are tried are 0..MaxGridPick
MaxGridPick == 2

----------------------------------------------------------------------------
(* Constants of the program *)

NoFocus == "undefined"

\* a nullable value: null is the empty sequence, a value v is <<v>>
Null == <<>>
Some(v) == <<v>>

CATEGORIES == <<"Arms & Biceps", "Legs", "Shoulders", "Abs", "Back">>

Ex(id, category, met, baseReps) ==
    [id |-> id, category |-> category, met |-> met, baseReps |-> baseReps]

EXERCISES == <<
    Ex("e1",  "Arms & Biceps", 80, 10),
    Ex("e2",  "Arms & Biceps", 85, 8),
    Ex("e3",  "Arms & Biceps", 40, 15),
    Ex("e14", "Arms & Biceps", 50, 12),
    Ex("e15", "Arms & Biceps", 40, 15),
    Ex("e4",  "Legs", 50, 15),
    Ex("e5",  "Legs", 55, 12),
    Ex("e6",  "Legs", 35, 20),
    Ex("e16", "Legs", 60, 10),
    Ex("e17", "Legs", 40, 15),
    Ex("e7",  "Shoulders", 45, 20),
    Ex("e8",  "Shoulders", 60, 8),
    Ex("e18", "Shoulders", 40, 12),
    Ex("e19", "Shoulders", 40, 12),
    Ex("e9",  "Abs", 38, 20),
    Ex("e10", "Abs", 40, 30),
    Ex("e11", "Abs", 40, 12),
    Ex("e20", "Abs", 45, 20),
    Ex("e21", "Abs", 80, 30),
    Ex("e12", "Back", 40, 12),
    Ex("e13", "Back", 35, 15),
    Ex("e22", "Back", 40, 12),
    Ex("e23", "Back", 25, 10) >>

InitialWeight == 70
InitialSessionDuration == 30
InitialRestDuration == 30

INITIAL_USER_DATA == [weight |-> InitialWeight, onboarded |-> FALSE]

INITIAL_CONFIG ==
    [sessionDuration |-> InitialSessionDuration, restDuration |-> InitialRestDuration]

MsPerMinute == 60000
SecondsPerHour == 3600
NominalExerciseSeconds == 60

SliderStep == 5
SessionSliderMin == 10
SessionSliderMax == 120
RestSliderMin == 10
RestSliderMax == 90

\* the position of the settings sliders that is tried: the lowest one
SessionSliderValues == {SessionSliderMin}
RestSliderValues == {RestSliderMin}

\* the body weights typed into the onboarding form: the initial one and a
\* lighter one
OtherWeight == 55
WeightChoices == {InitialWeight, OtherWeight}

\* the "Targeted Days" buttons that are tried: a category of four exercises
\* (Shoulders) and one of five (Abs)
FocusChoices == {c \in 1..Len(CATEGORIES) : CATEGORIES[c] \in {"Shoulders", "Abs"}}

\* the answers to the "Adjust Rest" prompt that are tried: every string s with
\* s && !isNaN(Number(s)) is accepted; a negative, zero and a positive whole number
PromptAnswers == {-1, 0, 1}

----------------------------------------------------------------------------
(* Plan generation *)

\* EXERCISES.filter(e => e.category === cat)
CatExercises(cat) == SelectSeq(EXERCISES, LAMBDA e : e.category = cat)

\* The products baseReps * intensity that are a whole number and a half exactly
\* but fall just below it in IEEE-754 doubles, as <<day, baseReps>>, for the
\* days below 150 and the catalog's baseReps (8, 10, 12, 15, 20, 30):
\* 30 * (1 + 21 * 0.05) = 61.49999999999999, 15 * (1 + 62 * 0.05) likewise.
DoubleJustBelowHalf == {<<22, 30>>, <<63, 15>>}

\* mutant of Reps: Math.floor in place of Math.round
RepsFloor(baseReps, day) == (baseReps * (19 + day)) \div 20

\* Math.round(base.baseReps * intensity) with intensity = 1 + (day - 1) * 0.05:
\* baseReps * (19 + day) / 20 rounded to the nearest integer, halves up, on the
\* double the product comes out as
Reps(baseReps, day) ==
    IF <<day, baseReps>> \in DoubleJustBelowHalf
    THEN ((2 * baseReps * (19 + day) + 20) \div 40) - 1
    ELSE (2 * baseReps * (19 + day) + 20) \div 40

WithReps(base, day) ==
    [id |-> base.id, category |-> base.category, met |-> base.met,
     baseReps |-> base.baseReps, reps |-> Reps(base.baseReps, day)]

\* mutant of getWorkoutForDay: without focus the rotation starts at day 1
getWorkoutForDayFromDayOne(day, focusCategory) ==
    IF focusCategory # NoFocus
    THEN LET catExercises == CatExercises(focusCategory)
         IN  [i \in 1..Len(catExercises) |-> WithReps(catExercises[i], day)]
    ELSE [c \in 1..Len(CATEGORIES) |->
            LET catExercises == CatExercises(CATEGORIES[c])
            IN  WithReps(catExercises[((day - 1) % Len(catExercises)) + 1], day)]

\* mutant of getWorkoutForDay: the rotation leaves out the last exercise of a
\* category
getWorkoutForDayShortRotation(day, focusCategory) ==
    IF focusCategory # NoFocus
    THEN LET catExercises == CatExercises(focusCategory)
         IN  [i \in 1..Len(catExercises) |-> WithReps(catExercises[i], day)]
    ELSE [c \in 1..Len(CATEGORIES) |->
            LET catExercises == CatExercises(CATEGORIES[c])
            IN  WithReps(catExercises[(day % (Len(catExercises) - 1)) + 1], day)]

\* mutant of getWorkoutForDay: the focus is not looked at
getWorkoutForDayIgnoringFocus(day, focusCategory) ==
    [c \in 1..Len(CATEGORIES) |->
        LET catExercises == CatExercises(CATEGORIES[c])
        IN  WithReps(catExercises[(day % Len(catExercises)) + 1], day)]

getWorkoutForDay(day, focusCategory) ==
    IF focusCategory # NoFocus
    THEN LET catExercises == CatExercises(focusCategory)
         IN  [i \in 1..Len(catExercises) |-> WithReps(catExercises[i], day)]
    ELSE [c \in 1..Len(CATEGORIES) |->
            LET catExercises == CatExercises(CATEGORIES[c])
            IN  WithReps(catExercises[(day % Len(catExercises)) + 1], day)]

\* useMemo(() => getWorkoutForDay(session.currentDay, session.focusCategory))
currentWorkout == getWorkoutForDay(session.currentDay, session.focusCategory)

----------------------------------------------------------------------------
(* Clock *)

\* Date.now(): the clock moves in steps of a minute and a half
DateNow == now * ((3 * MsPerMinute) \div 2)

----------------------------------------------------------------------------
(* Ledger *)

InSeq(x, s) == \E i \in 1..Len(s) : s[i] = x

\* [...new Set(s)]: the distinct elements of s, in order of first occurrence
RECURSIVE UniqueSeq(_)
UniqueSeq(s) ==
    IF s = <<>> THEN <<>>
    ELSE LET front == UniqueSeq(SubSeq(s, 1, Len(s) - 1))
             last  == s[Len(s)]
         IN  IF InSeq(last, front) THEN front ELSE Append(front, last)

\* mutant of RecordCompletion: the completed day is left out
RecordCompletionDropsDay(prev, day) == UniqueSeq(prev)

\* mutant of RecordCompletion: the day is appended without the Set
RecordCompletionAppends(prev, day) == Append(prev, day)

\* mutant of RecordCompletion: a day the ledger holds is taken out again
RecordCompletionToggles(prev, day) ==
    IF InSeq(day, prev) THEN SelectSeq(prev, LAMBDA d : d # day) ELSE Append(prev, day)

\* prev => [...new Set([...prev, session.currentDay])]
RecordCompletion(prev, day) == UniqueSeq(Append(prev, day))

\* mutant of currentPhase: the quotient is rounded up instead of down and raised
currentPhaseCeiling == (Len(completedDays) + 29) \div 30

\* Math.floor(completedDays.length / 30) + 1
currentPhase == (Len(completedDays) \div 30) + 1
phaseDayOffset == (currentPhase - 1) * 30

\* d => d > phaseDayOffset && d <= phaseDayOffset + 30
InPhase(d) == d > phaseDayOffset /\ d <= phaseDayOffset + 30

\* completedDays.filter(...).length
phaseProgress == Len(SelectSeq(completedDays, InPhase))

\* the dashboard's streak figure: completedDays.length
streak == Len(completedDays)

\* Math.max(...s), for a non-empty s
RECURSIVE MathMax(_)
MathMax(s) ==
    IF Len(s) = 1 THEN s[1]
    ELSE LET m == MathMax(Tail(s)) IN IF s[1] > m THEN s[1] ELSE m

\* the Training Matrix: cell i (0..29) shows day phaseDayOffset + i + 1
GridDay(i) == phaseDayOffset + i + 1

isDone(day) == InSeq(day, completedDays)

isNext(day) == day = (IF Len(completedDays) > 0 THEN MathMax(completedDays) + 1 ELSE 1)

\* the condition under which a cell gets the LOCKED overlay
isLocked(day) == ~isDone(day) /\ ~isNext(day) /\ day > Len(completedDays) + 1

----------------------------------------------------------------------------
(* Session updaters: the values handed to setSession *)

InitialSession(restDuration) ==
    [isActive |-> FALSE, currentDay |-> 1, currentExerciseIndex |-> 0,
     isResting |-> FALSE, restTimeLeft |-> restDuration,
     startTime |-> Null, focusCategory |-> NoFocus]

\* mutant of StartedSession: the focus is not written
StartedSessionWithoutFocus(day, focusCategory, restDuration, t) ==
    [isActive |-> TRUE, currentDay |-> day, currentExerciseIndex |-> 0,
     isResting |-> FALSE, restTimeLeft |-> restDuration,
     startTime |-> Some(t), focusCategory |-> NoFocus]

StartedSession(day, focusCategory, restDuration, t) ==
    [isActive |-> TRUE, currentDay |-> day, currentExerciseIndex |-> 0,
     isResting |-> FALSE, restTimeLeft |-> restDuration,
     startTime |-> Some(t), focusCategory |-> focusCategory]

\* mutant of RestEntered: the countdown is not reset
RestEnteredStale(prev, restDuration) == [prev EXCEPT !.isResting = TRUE]

\* mutant of RestEntered: the rest is entered on the next exercise
RestEnteredAtNext(prev, restDuration) ==
    [prev EXCEPT !.isResting = TRUE, !.restTimeLeft = restDuration,
                 !.currentExerciseIndex = @ + 1]

\* prev => ({ ...prev, isResting: true, restTimeLeft: config.restDuration })
RestEntered(prev, restDuration) ==
    [prev EXCEPT !.isResting = TRUE, !.restTimeLeft = restDuration]

\* mutant of Deactivated: the start time is cleared with the session
DeactivatedCleared(prev) == [prev EXCEPT !.isActive = FALSE, !.startTime = Null]

\* prev => ({ ...prev, isActive: false })
Deactivated(prev) == [prev EXCEPT !.isActive = FALSE]

\* mutant of IndexAdvanced: the index moves on by two
IndexAdvancedByTwo(prev) ==
    [prev EXCEPT !.isResting = FALSE,
                 !.currentExerciseIndex = prev.currentExerciseIndex + 2]

\* prev => ({ ...prev, isResting: false, currentExerciseIndex: prev.currentExerciseIndex + 1 })
IndexAdvanced(prev) ==
    [prev EXCEPT !.isResting = FALSE,
                 !.currentExerciseIndex = prev.currentExerciseIndex + 1]

\* mutant of IndexRetreated: the index moves forward, as in skipToNextExercise
IndexRetreatedForward(prev) ==
    [prev EXCEPT !.isResting = FALSE,
                 !.currentExerciseIndex = prev.currentExerciseIndex + 1]

\* prev => ({ ...prev, isResting: false, currentExerciseIndex: prev.currentExerciseIndex - 1 })
IndexRetreated(prev) ==
    [prev EXCEPT !.isResting = FALSE,
                 !.currentExerciseIndex = prev.currentExerciseIndex - 1]

\* mutant of TickedDown: two seconds per tick
TickedDownTwice(prev) == [prev EXCEPT !.restTimeLeft = prev.restTimeLeft - 2]

\* prev => ({ ...prev, restTimeLeft: prev.restTimeLeft - 1 })
TickedDown(prev) == [prev EXCEPT !.restTimeLeft = prev.restTimeLeft - 1]

\* mutant of RestSkipped: the skip ends the rest itself, without the next exercise
RestSkippedInPlace(prev) == [prev EXCEPT !.restTimeLeft = 0, !.isResting = FALSE]

\* p => ({ ...p, restTimeLeft: 0 })
RestSkipped(prev) == [prev EXCEPT !.restTimeLeft = 0]

\* the dependency array of the rest-timer effect
EffectDeps(s) == <<s.isActive, s.isResting, s.restTimeLeft>>

DepsChanged(s, t) == EffectDeps(s) # EffectDeps(t)

----------------------------------------------------------------------------
(* Energy and duration accounting *)

\* currentWorkout.reduce((acc, ex) => acc + calculateCalories(ex.met, 60), 0),
\* in units of 1 / (10 * SecondsPerHour) kcal
RECURSIVE SumMet(_)
SumMet(plan) ==
    IF plan = <<>> THEN 0
    ELSE plan[Len(plan)].met + SumMet(SubSeq(plan, 1, Len(plan) - 1))

\* mutant of TotalCalories: Math.floor in place of Math.round
TotalCaloriesFloor(plan, weight) ==
    (SumMet(plan) * weight * NominalExerciseSeconds) \div (10 * SecondsPerHour)

\* Math.round(totalCals)
TotalCalories(plan, weight) ==
    LET num == SumMet(plan) * weight * NominalExerciseSeconds
        den == 10 * SecondsPerHour
    IN  (2 * num + den) \div (2 * den)

\* mutant of DurationMin: Math.round in place of Math.floor
DurationMinRounded(startTime, t) ==
    LET from == IF startTime = Null \/ startTime = Some(0) THEN t ELSE startTime[1]
    IN  (2 * (t - from) + MsPerMinute) \div (2 * MsPerMinute)

\* Math.floor((Date.now() - (session.startTime || Date.now())) / 60000)
DurationMin(startTime, t) ==
    LET from == IF startTime = Null \/ startTime = Some(0) THEN t ELSE startTime[1]
    IN  (t - from) \div MsPerMinute

----------------------------------------------------------------------------
(* localStorage *)

\* JSON.stringify(v): the text of v; the values stored (records of numbers and
\* booleans, arrays of whole numbers) all have one
Stringify(v) == <<v>>

\* a stored text that JSON.parse throws on
Malformed == <<>>

\* JSON.parse(text), where it does not throw
Parse(text) == text[1]

\* localStorage.getItem gave a text and JSON.parse throws on it
ParseThrows(item) == item # Null /\ item[1] = Malformed

\* saved ? JSON.parse(saved) : initial
Restored(item, initial) == IF item = Null THEN initial ELSE Parse(item[1])

\* what the three persistence effects have written when all have run
Written(user, conf, completed) ==
    [user      |-> Some(Stringify(user)),
     config    |-> Some(Stringify(conf)),
     completed |-> Some(Stringify(completed))]

\* localStorage.clear()
Cleared == [user |-> Null, config |-> Null, completed |-> Null]

----------------------------------------------------------------------------
(* Initial state: first launch, nothing in localStorage, after the first render
   and its effects *)

Init ==
    /\ session = InitialSession(INITIAL_CONFIG.restDuration)
    /\ config = INITIAL_CONFIG
    /\ completedDays = <<>>
    /\ view = "onboarding"
    /\ lastStats = Null
    /\ userData = INITIAL_USER_DATA
    /\ timer = 0
    /\ effectPending = FALSE
    /\ now = 1
    /\ lastOp = "init"
    /\ storage = Written(INITIAL_USER_DATA, INITIAL_CONFIG, <<>>)
    /\ storageWorks = TRUE
    /\ crashed = FALSE

----------------------------------------------------------------------------
(* Event handlers *)

\* setSession(next): the new session and whether the rest-timer effect must run
SetSession(next) ==
    /\ session' = next
    /\ effectPending' = DepsChanged(session, next)

\* OnboardingView, the "Weight (kg)" input: the number w typed in
SetWeight(w) ==
    /\ ~effectPending
    /\ view = "onboarding"
    /\ userData' = [userData EXCEPT !.weight = w]
    /\ lastOp' = "weight"
    /\ UNCHANGED <<session, config, completedDays, view, lastStats, timer,
                   effectPending, now>>

\* OnboardingView, "Initialize Grid"
CompleteOnboarding ==
    /\ ~effectPending
    /\ view = "onboarding"
    /\ userData' = [userData EXCEPT !.onboarded = TRUE]
    /\ view' = "dashboard"
    /\ lastOp' = "nav"
    /\ UNCHANGED <<session, config, completedDays, lastStats, timer, effectPending, now>>

\* the bottom navigation bar (and ProgressView's "Update" button)
Navigate(tab) ==
    /\ ~effectPending
    /\ view \in {"dashboard", "settings", "progress"}
    /\ view' = tab
    /\ lastOp' = "nav"
    /\ UNCHANGED <<session, config, completedDays, lastStats, userData, timer,
                   effectPending, now>>

startWorkout(day, focusCategory) ==
    /\ SetSession(StartedSession(day, focusCategory, config.restDuration, DateNow))
    /\ view' = "workout"
    /\ lastOp' = "start"
    /\ UNCHANGED <<config, completedDays, lastStats, userData, timer, now>>

\* DashboardView, "Targeted Days": startWorkout(completedDays.length + 1, cat)
FocusButton(c) ==
    /\ ~effectPending
    /\ view = "dashboard"
    /\ startWorkout(Len(completedDays) + 1, CATEGORIES[c])

\* FocusButton for the days up to MaxDay
StartFocus(c) ==
    /\ Len(completedDays) + 1 <= MaxDay
    /\ FocusButton(c)

\* DashboardView, "Training Matrix": startWorkout(day)
GridButton(i) ==
    /\ ~effectPending
    /\ view = "dashboard"
    /\ startWorkout(GridDay(i), NoFocus)

\* GridButton for the days up to MaxDay
StartGridDay(i) ==
    /\ GridDay(i) <= MaxDay
    /\ GridButton(i)

\* DashboardView, "RESUME SESSION": startWorkout(completedDays.length + 1)
ResumeButton ==
    /\ ~effectPending
    /\ view = "dashboard"
    /\ startWorkout(Len(completedDays) + 1, NoFocus)

\* ResumeButton for the days up to MaxDay
StartResume ==
    /\ Len(completedDays) + 1 <= MaxDay
    /\ ResumeButton

\* mutant of hasNextExercise: the bound is off by one (the last index counts as not last)
hasNextExerciseOffByOne == session.currentExerciseIndex < Len(currentWorkout)

\* session.currentExerciseIndex < currentWorkout.length - 1
hasNextExercise == session.currentExerciseIndex < Len(currentWorkout) - 1

nextExercise ==
    IF hasNextExercise
    THEN /\ SetSession(RestEntered(session, config.restDuration))
         /\ lastOp' = "rest"
         /\ UNCHANGED <<config, completedDays, view, lastStats, userData, timer, now>>
    ELSE /\ lastStats' = Some([calories |-> TotalCalories(currentWorkout, userData.weight),
                               duration |-> DurationMin(session.startTime, DateNow)])
         /\ completedDays' = RecordCompletion(completedDays, session.currentDay)
         /\ view' = "summary"
         /\ SetSession(Deactivated(session))
         /\ lastOp' = IF InSeq(session.currentDay, completedDays)
                      THEN "completeAgain" ELSE "complete"
         /\ UNCHANGED <<config, userData, timer, now>>

\* WorkoutView footer, "COMPLETE PHASE"
CompletePhase ==
    /\ ~effectPending
    /\ view = "workout"
    /\ ~session.isResting
    /\ nextExercise

\* nextExercise called in whatever state the application is in, with an active
\* session or without
CallNextExercise ==
    /\ ~effectPending
    /\ nextExercise

\* mutant of skipToNextExercise: the index bound is not tested
skipToNextExerciseUnguarded ==
    /\ SetSession(IndexAdvanced(session))
    /\ lastOp' = IF session.currentExerciseIndex < Len(currentWorkout) - 1
                 THEN "skipForward" ELSE "skipForwardAtLast"
    /\ UNCHANGED <<config, completedDays, view, lastStats, userData, timer, now>>

\* mutant of skipToNextExercise: skipping on the last exercise records the day
skipToNextExerciseRecords ==
    /\ IF session.currentExerciseIndex < Len(currentWorkout) - 1
       THEN /\ SetSession(IndexAdvanced(session))
            /\ lastOp' = "skipForward"
            /\ UNCHANGED completedDays
       ELSE /\ UNCHANGED <<session, effectPending>>
            /\ lastOp' = "skipForwardAtLast"
            /\ completedDays' = RecordCompletion(completedDays, session.currentDay)
    /\ UNCHANGED <<config, view, lastStats, userData, timer, now>>

skipToNextExercise ==
    /\ IF session.currentExerciseIndex < Len(currentWorkout) - 1
       THEN SetSession(IndexAdvanced(session)) /\ lastOp' = "skipForward"
       ELSE UNCHANGED <<session, effectPending>> /\ lastOp' = "skipForwardAtLast"
    /\ UNCHANGED <<config, completedDays, view, lastStats, userData, timer, now>>

\* WorkoutView footer, the ChevronRight button
SkipForward ==
    /\ ~effectPending
    /\ view = "workout"
    /\ ~session.isResting
    /\ skipToNextExercise

previousExercise ==
    /\ IF session.currentExerciseIndex > 0
       THEN SetSession(IndexRetreated(session)) /\ lastOp' = "skipBackward"
       ELSE UNCHANGED <<session, effectPending>> /\ lastOp' = "skipBackwardAtFirst"
    /\ UNCHANGED <<config, completedDays, view, lastStats, userData, timer, now>>

\* WorkoutView footer, the ChevronLeft button
SkipBackward ==
    /\ ~effectPending
    /\ view = "workout"
    /\ ~session.isResting
    /\ previousExercise

\* WorkoutView rest screen, "SKIP RECOVERY"
SkipRest ==
    /\ ~effectPending
    /\ view = "workout"
    /\ session.isResting
    /\ SetSession(RestSkipped(session))
    /\ lastOp' = "skipRest"
    /\ UNCHANGED <<config, completedDays, view, lastStats, userData, timer, now>>

\* mutant of Abort: the button is also on the rest screen
AbortFromRest ==
    /\ ~effectPending
    /\ view = "workout"
    /\ view' = "dashboard"
    /\ lastOp' = "abort"
    /\ UNCHANGED <<session, config, completedDays, lastStats, userData, timer,
                   effectPending, now>>

\* WorkoutView header, "ABORT": onClick={() => setView('dashboard')}
Abort ==
    /\ ~effectPending
    /\ view = "workout"
    /\ ~session.isResting
    /\ view' = "dashboard"
    /\ lastOp' = "abort"
    /\ UNCHANGED <<session, config, completedDays, lastStats, userData, timer,
                   effectPending, now>>

\* WorkoutView header, "Adjust Rest": prompt() answered with the number n
AdjustRest(n) ==
    /\ ~effectPending
    /\ view = "workout"
    /\ ~session.isResting
    /\ config' = [config EXCEPT !.restDuration = n]
    /\ lastOp' = "adjustRest"
    /\ UNCHANGED <<session, completedDays, view, lastStats, userData, timer,
                   effectPending, now>>

\* SettingsView, the "Rest Duration" range input
SetRestDuration(v) ==
    /\ ~effectPending
    /\ view = "settings"
    /\ config' = [config EXCEPT !.restDuration = v]
    /\ lastOp' = "slider"
    /\ UNCHANGED <<session, completedDays, view, lastStats, userData, timer,
                   effectPending, now>>

\* SettingsView, the "Session Duration" range input
SetSessionDuration(v) ==
    /\ ~effectPending
    /\ view = "settings"
    /\ config' = [config EXCEPT !.sessionDuration = v]
    /\ lastOp' = "slider"
    /\ UNCHANGED <<session, completedDays, view, lastStats, userData, timer,
                   effectPending, now>>

\* SummaryView, "RETURN TO GRID"
ReturnToGrid ==
    /\ ~effectPending
    /\ view = "summary"
    /\ view' = "dashboard"
    /\ lastOp' = "nav"
    /\ UNCHANGED <<session, config, completedDays, lastStats, userData, timer,
                   effectPending, now>>

\* mutant of Purge: the ledger survives the purge
PurgeKeepsLedger ==
    /\ ~effectPending
    /\ view = "settings"
    /\ session' = InitialSession(INITIAL_CONFIG.restDuration)
    /\ config' = INITIAL_CONFIG
    /\ completedDays' = completedDays
    /\ view' = "onboarding"
    /\ lastStats' = Null
    /\ userData' = INITIAL_USER_DATA
    /\ timer' = 0
    /\ effectPending' = FALSE
    /\ lastOp' = "purge"
    /\ UNCHANGED now

\* SettingsView, "PURGE ALL DATA" confirmed: localStorage.clear(); reload()
Purge ==
    /\ ~effectPending
    /\ view = "settings"
    /\ session' = InitialSession(INITIAL_CONFIG.restDuration)
    /\ config' = INITIAL_CONFIG
    /\ completedDays' = <<>>
    /\ view' = "onboarding"
    /\ lastStats' = Null
    /\ userData' = INITIAL_USER_DATA
    /\ timer' = 0
    /\ effectPending' = FALSE
    /\ lastOp' = "purge"
    /\ UNCHANGED now

----------------------------------------------------------------------------
(* The rest timer *)

\* the setInterval callback of the rest-timer effect
Tick ==
    /\ ~effectPending
    /\ timer > 0
    /\ SetSession(TickedDown(session))
    /\ lastOp' = "tick"
    /\ UNCHANGED <<config, completedDays, view, lastStats, userData, timer, now>>

\* mutant of AfterCleanup: the effect returns no cleanup
AfterCleanupSkipped(armed) == armed

\* return () => clearInterval(timer): of the armed intervals none is left
AfterCleanup(armed) == 0

\* the rest-timer effect: the cleanup of its previous run (clearInterval), then its body
RestTimerEffect ==
    /\ effectPending
    /\ IF session.isActive /\ session.isResting /\ session.restTimeLeft > 0
       THEN /\ timer' = AfterCleanup(timer) + 1
            /\ effectPending' = FALSE
            /\ lastOp' = "arm"
            /\ UNCHANGED session
       ELSE IF session.restTimeLeft = 0 /\ session.isResting
       THEN /\ timer' = AfterCleanup(timer)
            /\ SetSession(IndexAdvanced(session))
            /\ lastOp' = "autoAdvance"
       ELSE /\ timer' = AfterCleanup(timer)
            /\ effectPending' = FALSE
            /\ lastOp' = "disarm"
            /\ UNCHANGED session
    /\ UNCHANGED <<config, completedDays, view, lastStats, userData, now>>

\* time passes
AdvanceClock ==
    /\ ~effectPending
    /\ now <= MaxClockSteps
    /\ now' = now + 1
    /\ lastOp' = "clock"
    /\ UNCHANGED <<session, config, completedDays, view, lastStats, userData,
                   timer, effectPending>>

----------------------------------------------------------------------------
(* Persistence *)

\* mutant of Persist: the ledger is not written
PersistWithoutLedger ==
    LET userChanged   == userData' # userData
        configChanged == config' # config
    IN  IF (userChanged \/ configChanged) /\ ~storageWorks
        THEN /\ crashed' = TRUE
             /\ storage' = storage
        ELSE /\ crashed' = FALSE
             /\ storage' =
                  [user      |-> IF userChanged THEN Some(Stringify(userData'))
                                 ELSE storage.user,
                   config    |-> IF configChanged THEN Some(Stringify(config'))
                                 ELSE storage.config,
                   completed |-> storage.completed]

\* the three persistence effects of the render that follows a step: each runs
\* when its value has changed and writes it; a setItem that throws is not
\* caught anywhere and takes the application down
Persist ==
    LET userChanged      == userData' # userData
        configChanged    == config' # config
        completedChanged == completedDays' # completedDays
    IN  IF (userChanged \/ configChanged \/ completedChanged) /\ ~storageWorks
        THEN /\ crashed' = TRUE
             /\ storage' = storage
        ELSE /\ crashed' = FALSE
             /\ storage' =
                  [user      |-> IF userChanged THEN Some(Stringify(userData'))
                                 ELSE storage.user,
                   config    |-> IF configChanged THEN Some(Stringify(config'))
                                 ELSE storage.config,
                   completed |-> IF completedChanged THEN Some(Stringify(completedDays'))
                                 ELSE storage.completed]

\* the effects of a first render on the storage left: all three write
MountEffects(left) ==
    IF storageWorks
    THEN /\ crashed' = FALSE
         /\ storage' = Written(userData', config', completedDays')
    ELSE /\ crashed' = TRUE
         /\ storage' = left

\* a step H of the running application and the render that follows it
Step(H) ==
    /\ ~crashed
    /\ H
    /\ Persist
    /\ UNCHANGED storageWorks

\* "PURGE ALL DATA" confirmed: the storage is cleared and the page loaded anew
PurgeAndReload ==
    /\ ~crashed
    /\ Purge
    /\ MountEffects(Cleared)
    /\ UNCHANGED storageWorks

\* the three useState initialisers read the storage left by the last page
LoadThrows(left) ==
    ParseThrows(left.user) \/ ParseThrows(left.config) \/ ParseThrows(left.completed)

\* mutant of Reload: the session and its interval survive the reload
ReloadKeepsSession ==
    /\ IF LoadThrows(storage)
       THEN /\ crashed' = TRUE
            /\ storage' = storage
            /\ userData' = INITIAL_USER_DATA
            /\ config' = INITIAL_CONFIG
            /\ completedDays' = <<>>
            /\ view' = "onboarding"
       ELSE /\ userData' = Restored(storage.user, INITIAL_USER_DATA)
            /\ config' = Restored(storage.config, INITIAL_CONFIG)
            /\ completedDays' = Restored(storage.completed, <<>>)
            /\ view' = IF userData'.onboarded THEN "dashboard" ELSE "onboarding"
            /\ MountEffects(storage)
    /\ lastStats' = Null
    /\ lastOp' = "reload"
    /\ UNCHANGED <<session, timer, effectPending, now, storageWorks>>

\* the page is loaded again (the browser's reload, or the application opened
\* anew): the state is built from the storage; a stored text that JSON.parse
\* throws on ends the first render, nothing is mounted and nothing is written
Reload ==
    /\ IF LoadThrows(storage)
       THEN /\ crashed' = TRUE
            /\ storage' = storage
            /\ userData' = INITIAL_USER_DATA
            /\ config' = INITIAL_CONFIG
            /\ completedDays' = <<>>
            /\ view' = "onboarding"
            /\ session' = InitialSession(INITIAL_CONFIG.restDuration)
       ELSE /\ userData' = Restored(storage.user, INITIAL_USER_DATA)
            /\ config' = Restored(storage.config, INITIAL_CONFIG)
            /\ completedDays' = Restored(storage.completed, <<>>)
            /\ view' = IF userData'.onboarded THEN "dashboard" ELSE "onboarding"
            /\ session' = InitialSession(config'.restDuration)
            /\ MountEffects(storage)
    /\ lastStats' = Null
    /\ timer' = 0
    /\ effectPending' = FALSE
    /\ lastOp' = "reload"
    /\ UNCHANGED <<now, storageWorks>>

\* the text stored under a key is removed or replaced by one that does not
\* parse, from outside the application (the browser's storage inspector,
\* another page of the origin, an older build); the running page does not
\* notice
StorageEdited(key, item) ==
    /\ storage[key] # item
    /\ storage' = [storage EXCEPT ![key] = item]
    /\ lastOp' = "edited"
    /\ UNCHANGED <<session, config, completedDays, view, lastStats, userData,
                   timer, effectPending, now, storageWorks, crashed>>

\* localStorage.setItem starts to throw (the quota is used up, the storage is
\* disabled)
StorageFails ==
    /\ storageWorks
    /\ storageWorks' = FALSE
    /\ lastOp' = "storageFails"
    /\ UNCHANGED <<session, config, completedDays, view, lastStats, userData,
                   timer, effectPending, now, storage, crashed>>

\* localStorage.setItem works again
StorageRecovers ==
    /\ ~storageWorks
    /\ storageWorks' = TRUE
    /\ lastOp' = "storageRecovers"
    /\ UNCHANGED <<session, config, completedDays, view, lastStats, userData,
                   timer, effectPending, now, storage, crashed>>

----------------------------------------------------------------------------

Next ==
    \/ Step(CompleteOnboarding)
    \/ \E tab \in {"dashboard", "settings", "progress"} : Step(Navigate(tab))
    \/ \E c \in FocusChoices : Step(StartFocus(c))
    \/ \E i \in 0..29 : Step(StartGridDay(i))
    \/ Step(StartResume)
    \/ Step(CompletePhase)
    \/ Step(SkipForward)
    \/ Step(SkipBackward)
    \/ Step(SkipRest)
    \/ Step(Abort)
    \/ \E n \in PromptAnswers : Step(AdjustRest(n))
    \/ \E v \in RestSliderValues : Step(SetRestDuration(v))
    \/ \E v \in SessionSliderValues : Step(SetSessionDuration(v))
    \/ Step(ReturnToGrid)
    \/ PurgeAndReload
    \/ Step(Tick)
    \/ Step(RestTimerEffect)
    \/ Step(AdvanceClock)

Spec == Init /\ [][Next]_vars

----------------------------------------------------------------------------
(* The application opened on an earlier visit's storage: the ledger and the
   user come from localStorage, the user is onboarded and the dashboard shows.
   Sessions are started from the dashboard here, left and started again, with
   the rest duration changed to one second in between; none is completed. *)

\* the ledger after the first n days were completed in order
FirstDays(n) == [d \in 1..n |-> d]

\* ledgers an earlier visit leaves in storage: the first n days
StoredLedgers == {FirstDays(n) : n \in 0..MaxStoredDays}

StoredInit ==
    /\ completedDays \in StoredLedgers
    /\ userData = [INITIAL_USER_DATA EXCEPT !.onboarded = TRUE]
    /\ config = INITIAL_CONFIG
    /\ view = "dashboard"
    /\ lastStats = Null
    /\ session = InitialSession(INITIAL_CONFIG.restDuration)
    /\ timer = 0
    /\ effectPending = FALSE
    /\ now = 1
    /\ lastOp = "init"
    /\ storage = Written(userData, config, completedDays)
    /\ storageWorks = TRUE
    /\ crashed = FALSE

StoredNext ==
    \/ \E c \in 1..Len(CATEGORIES) : Step(FocusButton(c))
    \/ \E i \in 0..MaxGridPick : Step(GridButton(i))
    \/ Step(ResumeButton)
    \/ Step(SkipForward)
    \/ Step(Abort)
    \/ Step(AdjustRest(1))
    \/ Step(RestTimerEffect)
    \/ Step(AdvanceClock)

StoredSpec == StoredInit /\ [][StoredNext]_vars

----------------------------------------------------------------------------
(* A first visit on which days are picked in any order, from the Training
   Matrix or with the next-day buttons, and gone through with the chevron and
   "COMPLETE PHASE", rests being skipped. *)

PickNext ==
    \/ Step(CompleteOnboarding)
    \/ \E i \in 0..(MaxPickedDay - 1) : Step(GridButton(i))
    \/ Step(Len(completedDays) + 1 <= MaxPickedDay /\ ResumeButton)
    \/ \E c \in FocusChoices : Step(Len(completedDays) + 1 <= MaxPickedDay /\ FocusButton(c))
    \/ Step(SkipForward)
    \/ Step(CompletePhase)
    \/ Step(SkipRest)
    \/ Step(ReturnToGrid)
    \/ Step(RestTimerEffect)

PickSpec == Init /\ [][PickNext]_vars

----------------------------------------------------------------------------
(* A first visit on which every session is worked through: after a start only
   "COMPLETE PHASE" is pressed and each rest ends, by its countdown or by
   "SKIP RECOVERY"; no exercise is skipped and no session is left. *)

RunNext ==
    \/ Step(CompleteOnboarding)
    \/ \E c \in FocusChoices : Step(StartFocus(c))
    \/ \E i \in 0..29 : Step(StartGridDay(i))
    \/ Step(StartResume)
    \/ Step(CompletePhase)
    \/ Step(SkipRest)
    \/ Step(ReturnToGrid)
    \/ Step(Tick)
    \/ Step(RestTimerEffect)

RunSpec == Init /\ [][RunNext]_vars

----------------------------------------------------------------------------
(* Sessions of a user who has typed a body weight: the days up to MaxDay, from
   the grid or with a focus, skipping forth and back, resting for any time *)

SummaryNext ==
    \/ \E w \in WeightChoices : Step(SetWeight(w))
    \/ Step(CompleteOnboarding)
    \/ \E i \in 0..29 : Step(StartGridDay(i))
    \/ \E c \in FocusChoices : Step(StartFocus(c))
    \/ Step(CompletePhase)
    \/ Step(SkipForward)
    \/ Step(SkipBackward)
    \/ Step(SkipRest)
    \/ Step(ReturnToGrid)
    \/ Step(Tick)
    \/ Step(RestTimerEffect)
    \/ Step(AdvanceClock)

SummarySpec == Init /\ [][SummaryNext]_vars

----------------------------------------------------------------------------
(* The operations of the session called in any state: nextExercise is called
   from every screen, by the interface or not *)

HandlerNext ==
    \/ Step(CompleteOnboarding)
    \/ \E i \in 0..29 : Step(StartGridDay(i))
    \/ \E c \in FocusChoices : Step(StartFocus(c))
    \/ Step(CallNextExercise)
    \/ Step(SkipRest)
    \/ Step(Abort)
    \/ Step(ReturnToGrid)
    \/ Step(RestTimerEffect)

HandlerSpec == Init /\ [][HandlerNext]_vars

----------------------------------------------------------------------------
(* The application used over several page loads: days picked from the grid in
   any order, the rest duration changed, the data purged, the page reloaded at
   any moment; the storage works *)

ReloadNext ==
    \/ Step(CompleteOnboarding)
    \/ \E tab \in {"dashboard", "settings"} : Step(Navigate(tab))
    \/ \E i \in 0..MaxGridPick : Step(GridButton(i))
    \/ Step(SkipForward)
    \/ Step(CompletePhase)
    \/ Step(SkipRest)
    \/ Step(AdjustRest(1))
    \/ Step(ReturnToGrid)
    \/ Step(RestTimerEffect)
    \/ PurgeAndReload
    \/ Reload

ReloadSpec == Init /\ [][ReloadNext]_vars

----------------------------------------------------------------------------
(* The same with a storage that can fail and be edited from outside: day 1
   only *)

StorageNext ==
    \/ Step(CompleteOnboarding)
    \/ \E tab \in {"dashboard", "settings"} : Step(Navigate(tab))
    \/ \E i \in 0..29 : Step(StartGridDay(i))
    \/ Step(SkipForward)
    \/ Step(CompletePhase)
    \/ Step(SkipRest)
    \/ Step(AdjustRest(1))
    \/ Step(ReturnToGrid)
    \/ Step(RestTimerEffect)
    \/ PurgeAndReload
    \/ Reload
    \/ \E key \in {"user", "config", "completed"} :
          \E item \in {Null, Some(Malformed)} : StorageEdited(key, item)
    \/ StorageFails
    \/ StorageRecovers

StorageSpec == Init /\ [][StorageNext]_vars

----------------------------------------------------------------------------
(* Properties *)

\* the last index of the plan of the session
LastIndex == Len(currentWorkout) - 1

\* what lastOp holds after nextExercise: a rest entered, a day completed, or a
\* day completed that the ledger already held
CompleteOps == {"complete", "completeAgain"}
NextExerciseOps == {"rest"} \cup CompleteOps

\* the steps of the timer facility: a tick, or a run of the rest-timer effect
TimerOps == {"tick", "arm", "autoAdvance", "disarm"}

\* C1: in every reachable state 0 <= exerciseIndex < plan.length, the plan being
\* generatePlan(session.day, session.focusCategory); the auto-advance at the end
\* of a rest never pushes the index past the last one.
C1_IndexInRange ==
    /\ session.currentExerciseIndex >= 0
    /\ session.currentExerciseIndex < Len(currentWorkout)

\* C1 witness: the auto-advance has just moved the session to its last exercise
C1_Witness ==
    /\ lastOp = "autoAdvance"
    /\ session.isActive
    /\ session.currentExerciseIndex = LastIndex

\* C2: completeCurrentExercise on the last index leaves the session deactivated,
\* the index where it was and the session's day in the ledger; and "COMPLETE
\* PHASE" on the last index is always that completion.
C2_CompleteOnLast ==
    [][ (lastOp' \in NextExerciseOps /\ session.currentExerciseIndex = LastIndex)
        => /\ lastOp' \in CompleteOps
           /\ ~session'.isActive
           /\ ~session'.isResting
           /\ session'.currentExerciseIndex = session.currentExerciseIndex
           /\ session'.currentDay = session.currentDay
           /\ InSeq(session.currentDay, completedDays')
           /\ view' = "summary" ]_vars

\* C2 witness: a completion has just happened: idle, day recorded
C2_Witness ==
    /\ lastOp = "complete"
    /\ ~session.isActive
    /\ session.currentExerciseIndex = LastIndex
    /\ InSeq(session.currentDay, completedDays)

\* C3 (as claimed): abort leaves the session deactivated and the ledger as it was.
C3_AbortDeactivates ==
    [][ lastOp' = "abort"
        => (~session'.isActive /\ completedDays' = completedDays) ]_vars

\* the session has been left: it is deactivated, or the workout screen was
\* left by ABORT (which leaves isActive set)
SessionLeft == ~session.isActive \/ view # "workout"

\* C4: once the session has been left (by completion or by abort) no interval
\* is armed, the auto-advance is not due, and no step of the timer facility
\* changes a field of the session.
C4_NoTimerAfterDeactivation ==
    /\ [](SessionLeft => (timer = 0 /\ ~session.isResting))
    /\ [][ (SessionLeft /\ lastOp' \in TimerOps) => session' = session ]_vars

\* C4 witness: the rest-timer effect has run after a completion and changed nothing
C4_Witness ==
    /\ lastOp = "disarm"
    /\ ~session.isActive
    /\ view = "summary"
    /\ timer = 0

\* C5 (as claimed): abort is enabled in every state of an active session on the
\* workout screen, also while resting.
C5_AbortAlwaysEnabled ==
    (session.isActive /\ view = "workout" /\ ~effectPending) => ENABLED Abort

\* C6: completeCurrentExercise on an index that is not the last sets resting,
\* sets restRemaining to the rest duration configured at that moment and leaves
\* the index; no step both enters Resting and changes the index.
C6_RestEntered ==
    /\ [][ (lastOp' \in NextExerciseOps /\ session.currentExerciseIndex < LastIndex)
           => /\ lastOp' = "rest"
              /\ session' = [session EXCEPT !.isResting = TRUE,
                                            !.restTimeLeft = config.restDuration] ]_vars
    /\ [][ (~session.isResting /\ session'.isResting)
           => session'.currentExerciseIndex = session.currentExerciseIndex ]_vars

\* C6 witness: a rest was entered after the rest duration had been changed
C6_Witness ==
    /\ lastOp = "rest"
    /\ session.isResting
    /\ config.restDuration # InitialRestDuration
    /\ session.restTimeLeft = config.restDuration
    /\ session.currentExerciseIndex > 0

\* C7: a tick happens only while active and resting with restRemaining > 0 and
\* takes exactly 1 off restRemaining; when restRemaining is 0 while resting, the
\* next step is the auto-advance, which clears resting and adds exactly 1 to the
\* index, once per rest.
C7_TickAndAutoAdvance ==
    /\ [][ lastOp' = "tick"
           => /\ session.isActive /\ session.isResting /\ session.restTimeLeft > 0
              /\ session' = [session EXCEPT !.restTimeLeft = @ - 1] ]_vars
    /\ [][ (session.isResting /\ session.restTimeLeft = 0) <=> lastOp' = "autoAdvance" ]_vars
    /\ [][ lastOp' = "autoAdvance"
           => /\ lastOp # "autoAdvance"
              /\ session' = [session EXCEPT !.isResting = FALSE,
                                            !.currentExerciseIndex = @ + 1] ]_vars

\* C7 witness: the tick from restRemaining = 1 has just been delivered
C7_Witness ==
    /\ lastOp = "tick"
    /\ session.isResting
    /\ session.restTimeLeft = 0

\* C8 (as claimed): restRemaining >= 0 in every reachable state.
C8_RestNonNegative == session.restTimeLeft >= 0

\* the state a rest ends in, from any state of that rest
RestExit(s) ==
    [s EXCEPT !.isResting = FALSE, !.restTimeLeft = 0,
              !.currentExerciseIndex = @ + 1]

\* C9: skipRest, in any Resting state, sets restRemaining to 0 and nothing else;
\* every step of a rest either stays in the rest with the same exit state or
\* leaves it in that exit state, so skipping and counting down end in the same
\* session: resting cleared, index + 1, restRemaining 0, all else equal.
C9_SkipRestAsCountdown ==
    /\ [][ lastOp' = "skipRest"
           => /\ session.isResting
              /\ session' = [session EXCEPT !.restTimeLeft = 0] ]_vars
    /\ [][ session.isResting
           => IF session'.isResting
              THEN RestExit(session') = RestExit(session)
              ELSE session' = RestExit(session) ]_vars

\* C9 witness: skipRest has just been taken with time left on the countdown
C9_Witness ==
    /\ lastOp = "skipRest"
    /\ session.isResting
    /\ session.restTimeLeft = 0
    /\ timer > 0

\* what lastOp holds after skipToNextExercise and after previousExercise
SkipForwardOps == {"skipForward", "skipForwardAtLast"}
SkipBackwardOps == {"skipBackward", "skipBackwardAtFirst"}

\* C10: skipForward and skipBackward are taken only while Exercising; below the
\* last index skipForward adds exactly 1 to the index, above index 0
\* skipBackward takes exactly 1 off it, resting being false afterwards.
C10_SkipMovesByOne ==
    /\ [][ lastOp' \in SkipForwardOps
           => /\ ~session.isResting /\ ~session'.isResting
              /\ session.currentExerciseIndex < LastIndex
                 => session' = [session EXCEPT !.currentExerciseIndex = @ + 1] ]_vars
    /\ [][ lastOp' \in SkipBackwardOps
           => /\ ~session.isResting /\ ~session'.isResting
              /\ session.currentExerciseIndex > 0
                 => session' = [session EXCEPT !.currentExerciseIndex = @ - 1] ]_vars

\* C10 witness: skipBackward has just moved an exercising session back to index 1
C10_Witness ==
    /\ lastOp = "skipBackward"
    /\ session.isActive
    /\ ~session.isResting
    /\ session.currentExerciseIndex = 1

\* C11: skipForward on the last index and skipBackward on index 0 change nothing:
\* every session field, the ledger, the screen and the last statistics stay as
\* they were, so the session is not completed and its day is not recorded.
C11_SkipNoOpAtEnds ==
    /\ [][ (lastOp' \in SkipForwardOps /\ session.currentExerciseIndex = LastIndex)
           => /\ lastOp' = "skipForwardAtLast"
              /\ UNCHANGED <<session, completedDays, view, lastStats, config, userData>> ]_vars
    /\ [][ (lastOp' \in SkipBackwardOps /\ session.currentExerciseIndex = 0)
           => /\ lastOp' = "skipBackwardAtFirst"
              /\ UNCHANGED <<session, completedDays, view, lastStats, config, userData>> ]_vars

\* C11 witness: skipForward has just been taken on the last index of an active
\* session whose day is not in the ledger
C11_Witness ==
    /\ lastOp = "skipForwardAtLast"
    /\ session.isActive
    /\ view = "workout"
    /\ session.currentExerciseIndex = LastIndex
    /\ ~InSeq(session.currentDay, completedDays)

\* the session that start(day, focus) is to leave, in the state it is called in
FreshSession(day, focus) ==
    [isActive |-> TRUE, currentDay |-> day, currentExerciseIndex |-> 0,
     isResting |-> FALSE, restTimeLeft |-> config.restDuration,
     startTime |-> Some(DateNow), focusCategory |-> focus]

\* C12: start always succeeds, whatever the session and the ledger hold: on the
\* dashboard every start button can be pressed, for days shown as locked too,
\* and the session it leaves is active on the given day with the given focus
\* (or none), index 0, not resting, restRemaining the configured rest duration
\* and startedAt the current time; nothing of the previous session is kept, and
\* the ledger is not touched.
C12_StartAlwaysFresh ==
    /\ []((view = "dashboard" /\ ~effectPending)
            => /\ ENABLED ResumeButton
               /\ \A c \in 1..Len(CATEGORIES) : ENABLED FocusButton(c)
               /\ \A i \in 0..MaxGridPick : ENABLED GridButton(i))
    /\ [][ /\ ResumeButton
              => session' = FreshSession(Len(completedDays) + 1, NoFocus)
           /\ \A c \in 1..Len(CATEGORIES) :
                 FocusButton(c)
                 => session' = FreshSession(Len(completedDays) + 1, CATEGORIES[c])
           /\ \A i \in 0..MaxGridPick :
                 GridButton(i) => session' = FreshSession(GridDay(i), NoFocus)
           /\ lastOp' = "start"
              => /\ session'.currentDay >= 1
                 /\ view' = "workout"
                 /\ completedDays' = completedDays ]_vars

\* C12 witness: a day shown as locked has just been started, after an earlier
\* session in which the rest duration was changed
C12_Witness ==
    /\ lastOp = "start"
    /\ isLocked(session.currentDay)
    /\ session.isActive
    /\ session.currentExerciseIndex = 0
    /\ config.restDuration # InitialRestDuration
    /\ session.restTimeLeft = config.restDuration

\* the days of a ledger
Days(ledger) == {ledger[k] : k \in 1..Len(ledger)}

\* in a session that is worked through, the completeCurrentExercise calls made
\* since its start and before its end: one per exercise left behind, and one
\* more while the rest after it lasts
CompletionsDone ==
    session.currentExerciseIndex + (IF session.isResting THEN 1 ELSE 0)

\* C13: in a session on day d with a plan of L exercises that is worked through
\* (completeCurrentExercise, each rest ending before the next), CompletionsDone
\* counts the calls: 0 at the start, one more with each call that enters a rest,
\* unchanged by the steps of a rest. The call that ends the session is exactly
\* the one made after L - 1 others: it leaves the session idle and the ledger
\* the previous ledger with d added, and until then the session stays active
\* and the ledger as it was. For d = 1 without focus on an empty ledger L is 5
\* and the final ledger is {1}.
C13_WorkedThroughSession ==
    /\ [][ lastOp' = "start" => CompletionsDone' = 0 /\ session'.isActive ]_vars
    /\ [][ lastOp' = "rest" => CompletionsDone' = CompletionsDone + 1 ]_vars
    /\ [][ lastOp' \notin ({"start", "rest"} \cup CompleteOps)
           => /\ CompletionsDone' = CompletionsDone
              /\ session'.isActive = session.isActive ]_vars
    /\ [][ lastOp' \in NextExerciseOps
           => /\ session.isActive
              /\ lastOp' \in CompleteOps <=> CompletionsDone = Len(currentWorkout) - 1 ]_vars
    /\ [][ IF lastOp' \in CompleteOps
           THEN /\ ~session'.isActive
                /\ Days(completedDays') = Days(completedDays) \cup {session.currentDay}
           ELSE /\ completedDays' = completedDays
                /\ lastOp' = "rest" => session'.isActive ]_vars
    /\ [][ ( /\ lastOp' \in CompleteOps
             /\ session.currentDay = 1
             /\ session.focusCategory = NoFocus
             /\ completedDays = <<>> )
           => /\ Len(currentWorkout) = 5
              /\ CompletionsDone = 4
              /\ completedDays' = <<1>> ]_vars

\* C13 witness: day 1 without focus has just been worked through on an empty
\* ledger: five exercises, session idle, ledger {1}
C13_Witness ==
    /\ lastOp = "complete"
    /\ session.currentDay = 1
    /\ session.focusCategory = NoFocus
    /\ ~session.isActive
    /\ session.currentExerciseIndex = 4
    /\ Len(currentWorkout) = 5
    /\ completedDays = <<1>>

\* C14: completing a day the ledger already holds leaves the ledger as it is,
\* size and contents; the ledger never holds a day twice, so the streak figure
\* (the ledger's length) is the number of different days completed.
C14_LedgerHoldsEachDayOnce ==
    /\ [](Len(completedDays) = Cardinality(Days(completedDays)))
    /\ [](streak = Cardinality(Days(completedDays)))
    /\ [][ (lastOp' \in CompleteOps /\ InSeq(session.currentDay, completedDays))
           => /\ lastOp' = "completeAgain"
              /\ completedDays' = completedDays ]_vars

\* C14 witness: day 1 has just been completed a second time; the ledger is
\* still [1] and the streak 1
C14_Witness ==
    /\ lastOp = "completeAgain"
    /\ session.currentDay = 1
    /\ completedDays = <<1>>
    /\ streak = 1

\* C15: the ledger only grows: whatever is done (start, completion, skips,
\* abort, rest adjustment, navigation, timer), the ledger of before is the
\* beginning of the ledger of after; only the "PURGE" reset takes days out, and
\* it takes them all.
C15_LedgerAppendOnly ==
    [][ IF lastOp' = "purge"
        THEN completedDays' = <<>>
        ELSE /\ Len(completedDays') >= Len(completedDays)
             /\ SubSeq(completedDays', 1, Len(completedDays)) = completedDays ]_vars

\* C15 witness: with day 1 in the ledger a later session has been started and
\* its rest duration adjusted; day 1 is still there
C15_Witness ==
    /\ lastOp = "adjustRest"
    /\ session.isActive
    /\ view = "workout"
    /\ InSeq(1, completedDays)

\* C16: for every ledger, currentPhase = floor(|ledger| / 30) + 1, the phase
\* starts at (currentPhase - 1) * 30 and phaseProgress is the number of ledger
\* days d with phaseStart < d <= phaseStart + 30; the ledger {1..35} gives
\* currentPhase 2 and phaseProgress 5.
C16_PhaseValues ==
    LET size       == Cardinality(Days(completedDays))
        phase      == (size \div 30) + 1
        phaseStart == (phase - 1) * 30
    IN  /\ currentPhase = phase
        /\ phaseDayOffset = phaseStart
        /\ phaseProgress =
              Cardinality({d \in Days(completedDays) : phaseStart < d /\ d <= phaseStart + 30})
        /\ Days(completedDays) = 1..35 => (currentPhase = 2 /\ phaseProgress = 5)

\* C16 witness: the dashboard shown again, after a session was left, on the
\* ledger {1..35}: phase 2, progress 5
C16_Witness ==
    /\ view = "dashboard"
    /\ lastOp = "abort"
    /\ Days(completedDays) = 1..35
    /\ currentPhase = 2
    /\ phaseDayOffset = 30
    /\ phaseProgress = 5

\* nextAvailableDay(): max(ledger) + 1, or 1 for the empty ledger
nextAvailableDay ==
    IF completedDays = <<>> THEN 1 ELSE MathMax(completedDays) + 1

\* C17 (as claimed): a session started with "RESUME SESSION" or with a
\* "Targeted Days" button is on day nextAvailableDay().
C17_ResumeStartsNextAvailableDay ==
    [][ (ResumeButton \/ \E c \in 1..Len(CATEGORIES) : FocusButton(c))
        => session'.currentDay = nextAvailableDay ]_vars

\* C18 (as claimed): a day of the Training Matrix has the LOCKED overlay
\* exactly when it is beyond nextAvailableDay().
C18_LockedBeyondNextAvailableDay ==
    \A i \in 0..29 : isLocked(GridDay(i)) <=> GridDay(i) > nextAvailableDay

\* the catalog entries of a category, as places in EXERCISES
PlacesOf(cat) == {p \in 1..Len(EXERCISES) : EXERCISES[p].category = cat}

\* reps is a whole number nearest to baseReps * (1 + (day - 1) * 0.05), that is
\* to baseReps * (19 + day) / 20
NearestReps(reps, baseReps, day) ==
    /\ 20 * reps - baseReps * (19 + day) <= 10
    /\ baseReps * (19 + day) - 20 * reps <= 10

\* item is the catalog exercise of category cat with rank entries of that
\* category declared before it, with the reps of the day
IsCatalogItem(item, cat, rank, day) ==
    \E p \in PlacesOf(cat) :
        /\ Cardinality({q \in PlacesOf(cat) : q < p}) = rank
        /\ item.id = EXERCISES[p].id
        /\ item.category = cat
        /\ item.met = EXERCISES[p].met
        /\ item.baseReps = EXERCISES[p].baseReps
        /\ NearestReps(item.reps, item.baseReps, day)

\* C19: without focus the plan of a day >= 1 has one item per category, in the
\* order of CATEGORIES, the item of category c being the catalog entry of c
\* at place (day mod |catalog of c|), counted from 0; the items and their reps
\* are given by the day and the catalog alone, whatever the session, the
\* ledger and the configuration hold.
C19_PlanWithoutFocus ==
    session.focusCategory = NoFocus
    => /\ session.currentDay >= 1
       /\ Len(currentWorkout) = Len(CATEGORIES)
       /\ \A c \in 1..Len(CATEGORIES) :
             IsCatalogItem(currentWorkout[c], CATEGORIES[c],
                           session.currentDay % Cardinality(PlacesOf(CATEGORIES[c])),
                           session.currentDay)

\* C19 witness: day 36 has just been started without focus: the second entry
\* of the categories of five, the first of the categories of four
C19_Witness ==
    /\ lastOp = "start"
    /\ session.focusCategory = NoFocus
    /\ session.currentDay = 36
    /\ [c \in 1..Len(currentWorkout) |-> currentWorkout[c].id]
         = <<"e2", "e5", "e7", "e10", "e12">>
    /\ currentWorkout[4].reps = 83

\* C20: with a category as focus the plan of a day >= 1 is the catalog entries
\* of that category, each once, in the order they are declared in, and nothing
\* else, each with reps a whole number nearest to baseReps * intensity(day).
C20_PlanWithFocus ==
    session.focusCategory # NoFocus
    => /\ session.currentDay >= 1
       /\ session.focusCategory \in {CATEGORIES[c] : c \in 1..Len(CATEGORIES)}
       /\ Len(currentWorkout) = Cardinality(PlacesOf(session.focusCategory))
       /\ \A k \in 1..Len(currentWorkout) :
             IsCatalogItem(currentWorkout[k], session.focusCategory, k - 1,
                           session.currentDay)

\* C20 witness: day 22 has just been started with focus Abs: its five
\* exercises in catalog order, with the reps of intensity 2.05
C20_Witness ==
    /\ lastOp = "start"
    /\ session.focusCategory = "Abs"
    /\ session.currentDay = 22
    /\ [k \in 1..Len(currentWorkout) |-> currentWorkout[k].id]
         = <<"e9", "e10", "e11", "e20", "e21">>
    /\ [k \in 1..Len(currentWorkout) |-> currentWorkout[k].reps]
         = <<41, 61, 25, 41, 61>>

\* C21: for every day >= 1 and every item of the plan, with or without focus,
\* reps is baseReps * (1 + (day - 1) * 0.05) rounded to a nearest whole number;
\* on day 1 reps is baseReps, and on day 11 it is baseReps * 1.5 rounded, a
\* half going up.
C21_RepsScaleWithDay ==
    /\ session.currentDay >= 1
    /\ \A k \in 1..Len(currentWorkout) :
          LET item == currentWorkout[k]
          IN  /\ NearestReps(item.reps, item.baseReps, session.currentDay)
              /\ session.currentDay = 1 => item.reps = item.baseReps
              /\ session.currentDay = 11
                   => item.reps = (3 * item.baseReps + 1) \div 2

\* C21 witness: day 11 has just been started with focus Arms & Biceps, whose
\* baseReps 10, 8, 15, 12, 15 have become 15, 12, 23, 18, 23
C21_Witness ==
    /\ lastOp = "start"
    /\ session.currentDay = 11
    /\ session.focusCategory = "Arms & Biceps"
    /\ [k \in 1..Len(currentWorkout) |-> currentWorkout[k].baseReps]
         = <<10, 8, 15, 12, 15>>
    /\ [k \in 1..Len(currentWorkout) |-> currentWorkout[k].reps]
         = <<15, 12, 23, 18, 23>>

\* C29 (as claimed): in every state that can be reached through the interface
\* restDuration lies in 10..90 and sessionDuration in 10..120.
C29_DurationsInRange ==
    /\ config.restDuration \in RestSliderMin..RestSliderMax
    /\ config.sessionDuration \in SessionSliderMin..SessionSliderMax

\* C30: while resting the exercise index is below the last index of the plan:
\* a rest is never entered on, or carried to, the final exercise.
C30_NoRestOnLastExercise ==
    session.isResting => session.currentExerciseIndex < Len(currentWorkout) - 1

\* C30 witness: the last but one exercise has just been completed and its rest
\* entered
C30_Witness ==
    /\ lastOp = "rest"
    /\ session.isActive
    /\ session.isResting
    /\ session.currentExerciseIndex = Len(currentWorkout) - 2

\* the met of the first k items of the plan, in tenths
RECURSIVE MetOfFirst(_)
MetOfFirst(k) == IF k = 0 THEN 0 ELSE currentWorkout[k].met + MetOfFirst(k - 1)

\* c is a whole number nearest to the sum over every item of the plan of
\* met * weight * 60 / 3600
NearestCalories(c, weight) ==
    LET num == MetOfFirst(Len(currentWorkout)) * weight * NominalExerciseSeconds
        den == 10 * SecondsPerHour
    IN  /\ 2 * (c * den - num) <= den
        /\ 2 * (num - c * den) <= den

\* C22: when a day is completed the summary's caloriesBurned is the sum over
\* every item of the plan of met * bodyWeightKg * 60 / 3600, rounded to a
\* nearest whole number: whichever exercises were completed, skipped or gone
\* back to, and however long the session and its rests lasted.
C22_CaloriesFromWholePlan ==
    [][ lastOp' \in CompleteOps
        => /\ lastStats' # Null
           /\ NearestCalories(lastStats'[1].calories, userData.weight) ]_vars

\* C22 witness: a user of 55 kg has just completed day 1 with focus Shoulders
\* (met 4.5 + 6.0 + 4.0 + 4.0), a minute and a half after starting it:
\* 18.5 * 55 / 60 = 16.96, shown as 17
C22_Witness ==
    /\ lastOp = "complete"
    /\ userData.weight = OtherWeight
    /\ session.focusCategory = "Shoulders"
    /\ lastStats = Some([calories |-> 17, duration |-> 1])

\* C23: when a day is completed the summary's durationMinutes is the whole
\* minutes, rounded down, from the start of the session being completed to
\* now, and is not negative; every start, a restart included, sets the start
\* of the session to now, and nothing but a purge moves it otherwise.
C23_DurationFromLastStart ==
    /\ [][ lastOp' \in CompleteOps
           => /\ lastStats' # Null
              /\ session.startTime # Null
              /\ lastStats'[1].duration
                   = (DateNow - session.startTime[1]) \div MsPerMinute
              /\ lastStats'[1].duration >= 0 ]_vars
    /\ [][ lastOp' = "start" => session'.startTime = Some(DateNow) ]_vars
    /\ [][ lastOp' \notin {"start", "purge"}
           => session'.startTime = session.startTime ]_vars

\* C23 witness: a day already in the ledger has been started again at the
\* second clock step and completed within the minute: duration 0, not the
\* time since its first start
C23_Witness ==
    /\ lastOp = "completeAgain"
    /\ now = 2
    /\ session.startTime = Some(DateNow)
    /\ lastStats # Null
    /\ lastStats[1].duration = 0

\* C28 (as claimed): nextExercise called while no session is active (before
\* any start, after a completion) changes nothing: the session stays inactive
\* and not resting, the ledger is unchanged and no summary is produced.
C28_NextExerciseIdleNoOp ==
    [][ (~session.isActive /\ lastOp' \in NextExerciseOps)
        => /\ session' = session
           /\ ~session'.isResting
           /\ completedDays' = completedDays
           /\ lastStats' = lastStats
           /\ view' = view ]_vars

\* nothing usable is stored under a key: no text, or one that does not parse
Unreadable(item) == item = Null \/ ParseThrows(item)

\* C24 (as claimed): at startup a stored profile, configuration or ledger that
\* is absent or malformed yields its default (the initial profile, {30, 30},
\* the empty ledger), and loading never ends in a fatal error.
C24_StartupFallsBack ==
    [][ (lastOp' = "reload" /\ storageWorks)
        => /\ ~crashed'
           /\ Unreadable(storage.user) => userData' = INITIAL_USER_DATA
           /\ Unreadable(storage.config) => config' = INITIAL_CONFIG
           /\ Unreadable(storage.completed) => completedDays' = <<>> ]_vars

\* C25: after every step the stored profile, configuration and ledger are the
\* texts of the ones in memory, and a reload loads exactly the ledger (and the
\* profile and the configuration) held before it.
C25_StoredFollowsMemory ==
    /\ [](~crashed => storage = Written(userData, config, completedDays))
    /\ [][ lastOp' = "reload"
           => /\ completedDays' = completedDays
              /\ config' = config
              /\ userData' = userData ]_vars

\* C25 witness: days 2 and 1 were completed in that order, the rest duration
\* changed, and the page has just been reloaded
C25_Witness ==
    /\ lastOp = "reload"
    /\ completedDays = <<2, 1>>
    /\ config.restDuration = 1
    /\ view = "dashboard"
    /\ storage.completed = Some(Stringify(<<2, 1>>))

\* C26 (as claimed): a persistence write that fails leaves the application
\* running: no step taken while localStorage.setItem throws ends it.
C26_FailedWriteHarmless ==
    [][ (~crashed /\ ~storageWorks /\ ~LoadThrows(storage)) => ~crashed' ]_vars

\* C27: a confirmed purge leaves the initial state: empty ledger, streak 0,
\* phase 1, the initial profile and configuration, no active session, and the
\* storage holding just these; a day enters the ledger only by being
\* completed, so no earlier day comes back afterwards, not by a reload either.
C27_PurgeLeavesNothing ==
    /\ [][ lastOp' = "purge"
           => /\ completedDays' = <<>>
              /\ streak' = 0
              /\ currentPhase' = 1
              /\ userData' = INITIAL_USER_DATA
              /\ config' = INITIAL_CONFIG
              /\ session' = InitialSession(InitialRestDuration)
              /\ ~session'.isActive
              /\ view' = "onboarding"
              /\ lastStats' = Null
              /\ storage' = Written(INITIAL_USER_DATA, INITIAL_CONFIG, <<>>) ]_vars
    /\ [][ \A d \in Days(completedDays') \ Days(completedDays) :
             lastOp' \in CompleteOps /\ d = session.currentDay ]_vars

\* C27 witness: the data has just been purged and the storage holds the text
\* of an empty ledger
C27_Witness ==
    /\ lastOp = "purge"
    /\ completedDays = <<>>
    /\ storage = Written(INITIAL_USER_DATA, INITIAL_CONFIG, <<>>)

\* C31 (as claimed): in no reachable state is the session active and resting
\* with neither a tick nor a run of the rest-timer effect (the auto-advance,
\* or the arming that lets ticks come) enabled: a rest always ends without
\* the user.
C31_RestAlwaysEnds ==
    (session.isActive /\ session.isResting)
    => (ENABLED Tick \/ ENABLED RestTimerEffect)

\* the rest-timer effect lets an interval run
TimerDue == session.isActive /\ session.isResting /\ session.restTimeLeft > 0

\* C32: at most one interval is armed at any time; once the rest-timer effect
\* has run, one is armed exactly when the session is active and resting with
\* restRemaining > 0; every run of the effect cancels the interval of the run
\* before it, so that arming leaves exactly one; and a tick comes only from
\* the interval armed by the latest run of the effect, never while a change of
\* active, resting or restRemaining still waits for its effect.
C32_OneTimerWhenDue ==
    /\ [](timer <= 1)
    /\ [](~effectPending => (timer = 1 <=> TimerDue))
    /\ [][ lastOp' = "arm" => timer' = 1 ]_vars
    /\ [][ lastOp' \in {"autoAdvance", "disarm"} => timer' = 0 ]_vars
    /\ [][ lastOp' = "tick" => (timer = 1 /\ ~effectPending /\ TimerDue) ]_vars

\* C32 witness: after the first tick of a rest the effect has run again,
\* cancelling the interval that ticked and arming the next
C32_Witness ==
    /\ lastOp = "arm"
    /\ timer = 1
    /\ session.isResting
    /\ session.restTimeLeft = config.restDuration - 1

\* the steps that are neither a completion on the last index nor a purge
LedgerKeepingOps ==
    {"start", "rest", "completeAgain", "skipRest", "tick", "arm", "autoAdvance",
     "disarm", "abort", "adjustRest", "slider", "nav", "clock"}
        \cup SkipForwardOps \cup SkipBackwardOps

\* C33: the ledger changes in two steps only: nextExercise on the last index,
\* which adds the day of the session, and the purge, which empties it; start,
\* nextExercise below the last index, the skips, skipRest, the tick, the
\* auto-advance, abort and the changes of the configuration leave it as it is.
C33_LedgerFrame ==
    /\ [][ lastOp' \in LedgerKeepingOps => completedDays' = completedDays ]_vars
    /\ [][ completedDays' # completedDays
           => \/ /\ lastOp' = "complete"
                 /\ session.currentExerciseIndex = LastIndex
                 /\ completedDays' = Append(completedDays, session.currentDay)
              \/ /\ lastOp' = "purge"
                 /\ completedDays' = <<>> ]_vars

\* C33 witness: with day 1 in the ledger a session was started again, a rest
\* counted down to its end and the auto-advance taken: the ledger is as before
C33_Witness ==
    /\ lastOp = "autoAdvance"
    /\ session.isActive
    /\ completedDays = <<1>>

\* C34: every step but a start (and the purge, which reloads the page) leaves
\* the day, the focus and the start time of the session as they are:
\* nextExercise with its deactivation, the skips, skipRest, the tick and the
\* auto-advance among them; so the plan of a session is the same from its
\* start to its end.
C34_SessionFrame ==
    [][ lastOp' \notin {"start", "purge"}
        => /\ session'.currentDay = session.currentDay
           /\ session'.focusCategory = session.focusCategory
           /\ session'.startTime = session.startTime
           /\ getWorkoutForDay(session'.currentDay, session'.focusCategory)
                = getWorkoutForDay(session.currentDay, session.focusCategory) ]_vars

\* C34 witness: a session with focus Abs, started at the second clock step,
\* has just been completed and deactivated, its day, focus and start time
\* still in place
C34_Witness ==
    /\ lastOp \in CompleteOps
    /\ ~session.isActive
    /\ session.currentDay = 1
    /\ session.startTime = Some(DateNow)
    /\ now = 2
    /\ session.focusCategory = "Abs"
    /\ session.startTime # Null
    /\ Len(currentWorkout) = Cardinality(PlacesOf("Abs"))

\* C35 (as claimed): for every reachable ledger the day that RESUME SESSION
\* and the focus buttons start, the length of the ledger plus one, is not in
\* the ledger, so that completing it adds one to the streak.
C35_ResumeDayIsNew == ~InSeq(Len(completedDays) + 1, completedDays)

\* C36: the workout screen is shown only while the session is active, and
\* while another screen is shown the session is not resting and no interval
\* is armed.
C36_WorkoutScreenAndSession ==
    /\ view = "workout" => session.isActive
    /\ view # "workout" => (~session.isResting /\ timer = 0)

\* C36 witness: the workout was left by ABORT on its second exercise: the
\* dashboard is shown, nothing rests and no interval is armed
C36_Witness ==
    /\ lastOp = "abort"
    /\ view = "dashboard"
    /\ session.currentExerciseIndex = 1
    /\ ~session.isResting
    /\ timer = 0

\* the exercise of the c-th category in the plan of a day without focus
SelectedOn(day, c) == getWorkoutForDay(day, NoFocus)[c].id

\* C37: without focus, for every category c and the window of |catalog of c|
\* days that begins on the day started, every exercise of c is selected on
\* exactly one day of the window, and the day |catalog of c| days later
\* selects the same exercise of c as the day started.
C37_RotationPerCategory ==
    (lastOp = "start" /\ session.focusCategory = NoFocus)
    => \A c \in 1..Len(CATEGORIES) :
          LET n == Cardinality(PlacesOf(CATEGORIES[c]))
              d == session.currentDay
          IN  /\ \A p \in PlacesOf(CATEGORIES[c]) :
                    Cardinality({k \in 0..(n - 1) :
                                   SelectedOn(d + k, c) = EXERCISES[p].id}) = 1
              /\ SelectedOn(d + n, c) = SelectedOn(d, c)

\* C37 witness: day 7 has just been started without focus; over days 7..11
\* the Abs exercise goes through all five of the category, and day 12 is on
\* the first of them again
C37_Witness ==
    /\ lastOp = "start"
    /\ session.focusCategory = NoFocus
    /\ session.currentDay = 7
    /\ [k \in 1..5 |-> SelectedOn(6 + k, 4)] = <<"e11", "e20", "e21", "e9", "e10">>
    /\ SelectedOn(12, 4) = "e11"

\* C38: the session is not stored: a reload in any state, in the middle of an
\* exercise or of a rest too, leaves the initial session (not active, index
\* 0, not resting) with no interval armed and the workout screen not shown,
\* while the ledger is the stored one, which is the one of before the reload:
\* the day that was interrupted is in it only if it was in it before.
C38_SessionNotStored ==
    [][ lastOp' = "reload"
        => /\ session' = InitialSession(config.restDuration)
           /\ ~session'.isActive
           /\ session'.currentExerciseIndex = 0
           /\ ~session'.isResting
           /\ timer' = 0
           /\ view' # "workout"
           /\ completedDays' = Restored(storage.completed, <<>>)
           /\ completedDays' = completedDays
           /\ InSeq(session.currentDay, completedDays')
                <=> InSeq(session.currentDay, completedDays) ]_vars

\* C38 witness: with days 3 and 1 completed the page has just been reloaded:
\* the session is the initial one, the ledger is as stored
C38_Witness ==
    /\ lastOp = "reload"
    /\ completedDays = <<3, 1>>
    /\ session = InitialSession(config.restDuration)
    /\ timer = 0
    /\ storage.completed = Some(Stringify(completedDays))

=============================================================================
